---- MODULE Spec2Model ----
(***************************************************************************)
(* Parameter binding of the FAEST signature scheme (src/src/parameter.rs): *)
(* the six one-way-function bindings, the six repetition schedules, the    *)
(* twelve scheme configurations, challenge decoding with its index         *)
(* arithmetic, and the rejection-sampling key generation loop.             *)
(***************************************************************************)
EXTENDS Integers, Sequences, FiniteSets, TLC

VARIABLES
    params,     \* the FAESTParameters configuration the program is instantiated with
    chal,       \* challenge buffer, a function 0..LAMBDA/8-1 -> byte
    rep,        \* next repetition index handed to decode_challenge
    res,        \* Vec<u8> returned by the last decode_challenge call
    bits,       \* concatenation of the decode_challenge results so far
    call,       \* last convert_index / convert_index_and_size call: [op, i, ret]
    panicked,   \* decode_challenge panicked (failed assertion or index out of bounds)
    stream,     \* what the random source yields, one entry per fill_bytes call
    extFail,    \* samples on which the witness-extension collaborator reports None
    pc,         \* position of keygen_with_rng
    draws,      \* number of rng.fill_bytes calls made
    attempts,   \* number of loop iterations started
    sk,         \* the buffer `sk` of the current iteration
    owf_output, \* the buffer `owf_output` of the current iteration
    ret,        \* the SecretKey returned by keygen_with_rng
    peer        \* a second, concurrent call of keygen_with_rng with its own
                \* random source: [stream, pc, draws, attempts, sk, owf_output, ret]

vars == <<params, chal, rep, res, bits, call, panicked, stream, extFail, pc, draws,
          attempts, sk, owf_output, ret, peer>>

tauVars == <<chal, rep, res, bits, call, panicked>>
keygenVars == <<stream, extFail, pc, draws, attempts, sk, owf_output, ret>>

----------------------------------------------------------------------------
(* Bounds of the model *)

\* number of distinct challenge buffers tried per configuration
NumChal == 3
\* number of distinct samples the random source can yield
NumSamples == 2
\* number of fill_bytes calls the modelled random stream covers
MaxDraws == 3

----------------------------------------------------------------------------
(* Byte helpers *)

Byte == 0..255

\* x >> s on u8
Shr(x, s) == x \div (2 ^ s)

\* x & 1
And1(x) == x % 2

RECURSIVE Xor8(_, _, _)
\* a ^ b on the low n bits
Xor8(a, b, n) ==
    IF n = 0 THEN 0
    ELSE ((a + b) % 2) + 2 * Xor8(a \div 2, b \div 2, n - 1)

\* &s[from..to) of a 1-based sequence holding a 0-based slice
Slice(s, from, to) == [n \in 1..(to - from) |-> s[from + n]]

----------------------------------------------------------------------------
(* impl OWFParameters for OWF128 .. OWF256EM: the associated constants.     *)
(* LAMBDA and LAMBDABYTES are written Lambda and LambdaBytes (the names of  *)
(* the same lengths in BaseParameters), LAMBDA being a TLA+ keyword.        *)

OWF128 ==
    [name |-> "OWF128", em |-> FALSE, InputSize |-> 16,
     Lambda |-> 128, LambdaBytes |-> 16, L |-> 1024 + 576, LBYTES |-> 200,
     NK |-> 4, R |-> 10, SKE |-> 40, LKE |-> 448, LKEBytes |-> 448 \div 8,
     LENC |-> 1024 + 128, NST |-> 0, PK |-> 32, SK |-> 32,
     LHATBYTES |-> 200 + ((2 * 16) + 2)]

\* OWF192 with the secret-key length of OWF256
OWF192_sk64 ==
    [name |-> "OWF192", em |-> FALSE, InputSize |-> 32,
     Lambda |-> 192, LambdaBytes |-> 24, L |-> 4096 - 832, LBYTES |-> 408,
     NK |-> 6, R |-> 12, SKE |-> 32, LKE |-> 448, LKEBytes |-> 448 \div 8,
     LENC |-> 1024 + 384, NST |-> 0, PK |-> 64, SK |-> 64,
     LHATBYTES |-> 408 + ((2 * 24) + 2)]

OWF192 ==
    [name |-> "OWF192", em |-> FALSE, InputSize |-> 32,
     Lambda |-> 192, LambdaBytes |-> 24, L |-> 4096 - 832, LBYTES |-> 408,
     NK |-> 6, R |-> 12, SKE |-> 32, LKE |-> 448, LKEBytes |-> 448 \div 8,
     LENC |-> 1024 + 384, NST |-> 0, PK |-> 64, SK |-> 56,
     LHATBYTES |-> 408 + ((2 * 24) + 2)]

OWF256 ==
    [name |-> "OWF256", em |-> FALSE, InputSize |-> 32,
     Lambda |-> 256, LambdaBytes |-> 32, L |-> 4096 - 96, LBYTES |-> 500,
     NK |-> 8, R |-> 14, SKE |-> 52, LKE |-> 672, LKEBytes |-> 672 \div 8,
     LENC |-> 1024 + 640, NST |-> 0, PK |-> 64, SK |-> 64,
     LHATBYTES |-> 500 + ((2 * 32) + 2)]

OWF128EM ==
    [name |-> "OWF128EM", em |-> TRUE, InputSize |-> 16,
     Lambda |-> 128, LambdaBytes |-> 16, L |-> 1024 + 256, LBYTES |-> 160,
     NK |-> 4, R |-> 10, SKE |-> 40, LKE |-> 448, LKEBytes |-> 448 \div 8,
     LENC |-> 1024 + 128, NST |-> 4, PK |-> 32, SK |-> 32,
     LHATBYTES |-> 160 + ((2 * 16) + 2)]

OWF192EM ==
    [name |-> "OWF192EM", em |-> TRUE, InputSize |-> 24,
     Lambda |-> 192, LambdaBytes |-> 24, L |-> 2048 + 256, LBYTES |-> 288,
     NK |-> 6, R |-> 12, SKE |-> 32, LKE |-> 448, LKEBytes |-> 448 \div 8,
     LENC |-> 1024 + 384, NST |-> 6, PK |-> 48, SK |-> 48,
     LHATBYTES |-> 288 + ((2 * 24) + 2)]

\* OWF256EM with a witness bit length that is not 8 * LBYTES
OWF256EM_l ==
    [name |-> "OWF256EM", em |-> TRUE, InputSize |-> 32,
     Lambda |-> 256, LambdaBytes |-> 32, L |-> 4096 - 500, LBYTES |-> 448,
     NK |-> 8, R |-> 14, SKE |-> 52, LKE |-> 672, LKEBytes |-> 672 \div 8,
     LENC |-> 1024 + 640, NST |-> 8, PK |-> 64, SK |-> 64,
     LHATBYTES |-> 448 + ((2 * 32) + 2)]

OWF256EM ==
    [name |-> "OWF256EM", em |-> TRUE, InputSize |-> 32,
     Lambda |-> 256, LambdaBytes |-> 32, L |-> 4096 - 512, LBYTES |-> 448,
     NK |-> 8, R |-> 14, SKE |-> 52, LKE |-> 672, LKEBytes |-> 672 \div 8,
     LENC |-> 1024 + 640, NST |-> 8, PK |-> 64, SK |-> 64,
     LHATBYTES |-> 448 + ((2 * 32) + 2)]

----------------------------------------------------------------------------
(* impl TauParameters for Tau128Small .. Tau256Fast *)

Tau128Small == [name |-> "Tau128Small", Tau |-> 11, K0 |-> 12, K1 |-> 11, Tau0 |-> 7, Tau1 |-> 4]

Tau128Fast == [name |-> "Tau128Fast", Tau |-> 16, K0 |-> 8, K1 |-> 8, Tau0 |-> 8, Tau1 |-> 8]

Tau192Small == [name |-> "Tau192Small", Tau |-> 16, K0 |-> 12, K1 |-> 12, Tau0 |-> 8, Tau1 |-> 8]

Tau192Fast == [name |-> "Tau192Fast", Tau |-> 24, K0 |-> 8, K1 |-> 8, Tau0 |-> 12, Tau1 |-> 12]

\* Tau256Small with the width of the second region copied from the first
Tau256Small_k1 == [name |-> "Tau256Small", Tau |-> 22, K0 |-> 12, K1 |-> 12, Tau0 |-> 14, Tau1 |-> 8]

Tau256Small == [name |-> "Tau256Small", Tau |-> 22, K0 |-> 12, K1 |-> 11, Tau0 |-> 14, Tau1 |-> 8]

Tau256Fast == [name |-> "Tau256Fast", Tau |-> 32, K0 |-> 8, K1 |-> 8, Tau0 |-> 16, Tau1 |-> 16]

----------------------------------------------------------------------------
(* impl FAESTParameters for FAEST128sParameters .. FAESTEM256fParameters *)

FAEST128sParameters ==
    [name |-> "FAEST128s", OWF |-> OWF128, Tau |-> Tau128Small,
     N0 |-> 4096, POWK0 |-> 8192 - 1, N1 |-> 2048, POWK1 |-> 4096 - 1,
     SignatureSize |-> 142 + (256 + (512 + 4096))]

FAEST128fParameters ==
    [name |-> "FAEST128f", OWF |-> OWF128, Tau |-> Tau128Fast,
     N0 |-> 256, POWK0 |-> 511, N1 |-> 256, POWK1 |-> 511,
     SignatureSize |-> 192 + (2048 + 4096)]

FAEST192sParameters ==
    [name |-> "FAEST192s", OWF |-> OWF192, Tau |-> Tau192Small,
     N0 |-> 4096, POWK0 |-> 8192 - 1, N1 |-> 4096, POWK1 |-> 8192 - 1,
     SignatureSize |-> 200 + (256 + (8192 + 4096))]

FAEST192fParameters ==
    [name |-> "FAEST192f", OWF |-> OWF192, Tau |-> Tau192Fast,
     N0 |-> 256, POWK0 |-> 511, N1 |-> 256, POWK1 |-> 511,
     SignatureSize |-> 152 + (256 + 16384)]

FAEST256sParameters ==
    [name |-> "FAEST256s", OWF |-> OWF256, Tau |-> Tau256Small,
     N0 |-> 4096, POWK0 |-> 8192 - 1, N1 |-> 2048, POWK1 |-> 4096 - 1,
     SignatureSize |-> 596 + (1024 + (4096 + 16384))]

\* FAEST256fParameters with one summand of SignatureSize left out
FAEST256fParameters_sig ==
    [name |-> "FAEST256f", OWF |-> OWF256, Tau |-> Tau256Fast,
     N0 |-> 256, POWK0 |-> 511, N1 |-> 256, POWK1 |-> 511,
     SignatureSize |-> 752 + (1024 + (8192 + 16384))]

FAEST256fParameters ==
    [name |-> "FAEST256f", OWF |-> OWF256, Tau |-> Tau256Fast,
     N0 |-> 256, POWK0 |-> 511, N1 |-> 256, POWK1 |-> 511,
     SignatureSize |-> 752 + (1024 + (2048 + (8192 + 16384)))]

FAESTEM128sParameters ==
    [name |-> "FAESTEM128s", OWF |-> OWF128EM, Tau |-> Tau128Small,
     N0 |-> 4096, POWK0 |-> 8192 - 1, N1 |-> 2048, POWK1 |-> 4096 - 1,
     SignatureSize |-> 470 + 4096]

FAESTEM128fParameters ==
    [name |-> "FAESTEM128f", OWF |-> OWF128EM, Tau |-> Tau128Fast,
     N0 |-> 256, POWK0 |-> 511, N1 |-> 256, POWK1 |-> 511,
     SignatureSize |-> 576 + (1024 + 4096)]

FAESTEM192sParameters ==
    [name |-> "FAESTEM192s", OWF |-> OWF192EM, Tau |-> Tau192Small,
     N0 |-> 4096, POWK0 |-> 8192 - 1, N1 |-> 4096, POWK1 |-> 8192 - 1,
     SignatureSize |-> 584 + (2048 + 8192)]

FAESTEM192fParameters ==
    [name |-> "FAESTEM192f", OWF |-> OWF192EM, Tau |-> Tau192Fast,
     N0 |-> 256, POWK0 |-> 511, N1 |-> 256, POWK1 |-> 511,
     SignatureSize |-> 600 + (1024 + (4096 + 8192))]

FAESTEM256sParameters ==
    [name |-> "FAESTEM256s", OWF |-> OWF256EM, Tau |-> Tau256Small,
     N0 |-> 4096, POWK0 |-> 8192 - 1, N1 |-> 2048, POWK1 |-> 4096 - 1,
     SignatureSize |-> 476 + (4096 + 16384)]

FAESTEM256fParameters ==
    [name |-> "FAESTEM256f", OWF |-> OWF256EM, Tau |-> Tau256Fast,
     N0 |-> 256, POWK0 |-> 511, N1 |-> 256, POWK1 |-> 511,
     SignatureSize |-> 112 + (2048 + (8192 + 16384))]

\* the twelve instantiations exercised by the generic tests
FAESTConfigurations ==
    {FAEST128fParameters, FAEST128sParameters, FAEST192fParameters,
     FAEST192sParameters, FAEST256fParameters, FAEST256sParameters,
     FAESTEM128fParameters, FAESTEM128sParameters, FAESTEM192fParameters,
     FAESTEM192sParameters, FAESTEM256fParameters, FAESTEM256sParameters}

----------------------------------------------------------------------------
(* trait TauParameters: challenge decoding and index arithmetic *)

\* decode_bounds with the prefix of the second region measured in K1
decode_bounds_prefix(T, i) ==
    IF i < T.Tau0
    THEN LET lo == i * T.K0
             hi == (i + 1) * T.K0 - 1
         IN  <<lo, hi>>
    ELSE LET t  == i - T.Tau0
             lo == T.Tau0 * T.K1 + t * T.K1
             hi == T.Tau0 * T.K1 + (t + 1) * T.K1 - 1
         IN  <<lo, hi>>

\* decode_bounds with hi one past the last bit of the slice
decode_bounds_hi(T, i) ==
    IF i < T.Tau0
    THEN LET lo == i * T.K0
             hi == (i + 1) * T.K0
         IN  <<lo, hi>>
    ELSE LET t  == i - T.Tau0
             lo == T.Tau0 * T.K0 + t * T.K1
             hi == T.Tau0 * T.K0 + (t + 1) * T.K1
         IN  <<lo, hi>>

\* the (lo, hi) pair computed at the head of decode_challenge_as_iter
decode_bounds(T, i) ==
    IF i < T.Tau0
    THEN LET lo == i * T.K0
             hi == (i + 1) * T.K0 - 1
         IN  <<lo, hi>>
    ELSE LET t  == i - T.Tau0
             lo == T.Tau0 * T.K0 + t * T.K1
             hi == T.Tau0 * T.K0 + (t + 1) * T.K1 - 1
         IN  <<lo, hi>>

\* decode_challenge_as_iter reading the bits of a byte most significant first
decode_challenge_as_iter_msb(T, c, i) ==
    LET lo == decode_bounds(T, i)[1]
        hi == decode_bounds(T, i)[2]
    IN  [n \in 1..(hi - lo + 1) |->
            LET j == lo + (n - 1) IN And1(Shr(c[j \div 8], 7 - (j % 8)))]

\* (lo..=hi).map(move |j| (chal[j / 8] >> (j % 8)) & 1)
decode_challenge_as_iter(T, c, i) ==
    LET lo == decode_bounds(T, i)[1]
        hi == decode_bounds(T, i)[2]
    IN  [n \in 1..(hi - lo + 1) |->
            LET j == lo + (n - 1) IN And1(Shr(c[j \div 8], j % 8))]

\* debug_assert!(i < Self::Tau0::USIZE + Self::Tau1::USIZE), which only the
\* else branch evaluates
decode_assert(T, i) == i < T.Tau0 \/ i < T.Tau0 + T.Tau1

\* every chal[j / 8] of the iterator indexes inside the buffer
decode_in_bounds(T, c, i) ==
    \A j \in decode_bounds(T, i)[1]..decode_bounds(T, i)[2] : (j \div 8) \in DOMAIN c

\* decode_challenge_as_iter(chal, i).collect()
decode_challenge(T, c, i) == decode_challenge_as_iter(T, c, i)

\* convert_index without the two-region split
convert_index_flat(T, i) == T.K0 * i

convert_index(T, i) ==
    IF i < T.Tau0
    THEN T.K0 * i
    ELSE T.Tau0 * T.K0 + T.K1 * (i - T.Tau0)

convert_index_and_size(T, i) ==
    IF i < T.Tau0
    THEN <<T.K0 * i, T.K0>>
    ELSE <<T.Tau0 * T.K0 + T.K1 * (i - T.Tau0), T.K1>>

----------------------------------------------------------------------------
(* Collaborators of key generation *)

\* GenericArray::default(): len zero bytes
default_array(len) == [n \in 1..len |-> 0]

\* rng.fill_bytes(&mut buf): one call fills the whole buffer; s is what the
\* random source yields on that call
fill_bytes(s, len) == [n \in 1..len |-> (s * 67 + n * 13 + 1) % 256]

\* the block cipher behind encrypt_block_b2b: a keyed bytewise permutation
encrypt_block_b2b(cipher_key, block) ==
    [n \in 1..Len(block) |->
        (block[n] + 3 * cipher_key[((n - 1) % Len(cipher_key)) + 1]
                  + 17 * Len(cipher_key) + n) % 256]

\* aes_extendedwitness / em_extendedwitness: a deterministic function of
\* (owf_key, owf_input) that reports None on the pairs listed in extFail
extendwitness(O, owf_key, owf_input) ==
    IF \E s \in extFail :
          /\ owf_input = Slice(fill_bytes(s, O.SK), 0, O.InputSize)
          /\ owf_key = Slice(fill_bytes(s, O.SK), O.InputSize, O.SK)
    THEN [is_some |-> FALSE]
    ELSE [is_some |-> TRUE]

----------------------------------------------------------------------------
(* OWFParameters::evaluate_owf of the six bindings *)

\* evaluate_owf whose Even-Mansour bindings key the cipher with `key`
evaluate_owf_unswapped(O, key, input, output) ==
    IF O.name = "OWF128"
    THEN encrypt_block_b2b(key, input)
    ELSE IF O.name \in {"OWF192", "OWF256"}
    THEN encrypt_block_b2b(key, Slice(input, 0, 16))
            \o encrypt_block_b2b(key, Slice(input, 16, Len(input)))
    ELSE LET enc == encrypt_block_b2b(key, input)
         IN  [idx \in 1..Len(output) |->
                IF idx <= O.InputSize
                THEN Xor8(enc[idx], key[idx], 8)
                ELSE enc[idx]]

\* evaluate_owf whose second block encrypts the first 16 input bytes again
evaluate_owf_oneblock(O, key, input, output) ==
    IF O.name = "OWF128"
    THEN encrypt_block_b2b(key, input)
    ELSE IF O.name \in {"OWF192", "OWF256"}
    THEN encrypt_block_b2b(key, Slice(input, 0, 16))
            \o encrypt_block_b2b(key, Slice(input, 0, 16))
    ELSE LET enc == encrypt_block_b2b(input, key)
         IN  [idx \in 1..Len(output) |->
                IF idx <= O.InputSize
                THEN Xor8(enc[idx], key[idx], 8)
                ELSE enc[idx]]

evaluate_owf(O, key, input, output) ==
    IF O.name = "OWF128"
    THEN encrypt_block_b2b(key, input)
    ELSE IF O.name \in {"OWF192", "OWF256"}
    THEN encrypt_block_b2b(key, Slice(input, 0, 16))
            \o encrypt_block_b2b(key, Slice(input, 16, Len(input)))
    ELSE LET enc == encrypt_block_b2b(input, key)
         IN  [idx \in 1..Len(output) |->
                IF idx <= O.InputSize
                THEN Xor8(enc[idx], key[idx], 8)
                ELSE enc[idx]]

\* let owf_input = GenericArray::from_slice(&sk[..Self::InputSize::USIZE]);
owf_input_of(O, buf) == Slice(buf, 0, O.InputSize)

\* the key view taken from the front of the buffer
owf_key_of_front(O, buf) == Slice(buf, 0, Len(buf) - O.InputSize)

\* let owf_key = GenericArray::from_slice(&sk[Self::InputSize::USIZE..]);
owf_key_of(O, buf) == Slice(buf, O.InputSize, Len(buf))

\* OWFParameters::witness: extendwitness(..).unwrap()
witness(O, k) ==
    LET w == extendwitness(O, k.owf_key, k.pk.owf_input)
    IN  IF w.is_some THEN "witness" ELSE "panic"

----------------------------------------------------------------------------
(* State *)

NoCall == [op |-> "none", i |-> 0, ret |-> <<>>]

NoKey == [owf_key |-> <<>>, pk |-> [owf_input |-> <<>>, owf_output |-> <<>>]]

SampleIds == 0..(NumSamples - 1)

\* the p-th challenge buffer of len bytes
ChalBuffer(p, len) == [n \in 0..(len - 1) |-> (p * 83 + n * 29 + p * n * 7 + 5) % 256]

TauIdle ==
    /\ rep = 0
    /\ res = <<>>
    /\ bits = <<>>
    /\ call = NoCall
    /\ panicked = FALSE

\* the state of a call of keygen_with_rng on entry (p = "loop") or of a
\* call that is never made (p = "idle")
KeygenCall(p, str) ==
    [stream |-> str, pc |-> p, draws |-> 0, attempts |-> 0, sk |-> <<>>,
     owf_output |-> <<>>, ret |-> NoKey]

KeygenIdle(p) ==
    /\ pc = p
    /\ draws = 0
    /\ attempts = 0
    /\ sk = <<>>
    /\ owf_output = <<>>
    /\ ret = NoKey

\* challenge decoding is exercised; key generation has not been called
InitTau ==
    /\ params \in FAESTConfigurations
    /\ chal \in {ChalBuffer(p, params.OWF.Lambda \div 8) : p \in 0..(NumChal - 1)}
    /\ TauIdle
    /\ stream = [k \in 1..MaxDraws |-> 0]
    /\ extFail = {}
    /\ KeygenIdle("idle")
    /\ peer = KeygenCall("idle", <<>>)

\* key generation is called; no challenge has been decoded
InitKeygen ==
    /\ params \in FAESTConfigurations
    /\ chal = ChalBuffer(0, params.OWF.Lambda \div 8)
    /\ TauIdle
    /\ stream \in [1..MaxDraws -> SampleIds]
    /\ extFail \in SUBSET SampleIds
    /\ KeygenIdle("loop")
    /\ peer = KeygenCall("idle", <<>>)

----------------------------------------------------------------------------
(* Operations of the repetition schedule *)

\* decode_challenge(chal, rep) for the next repetition; the caller collects
\* the slices of the repetitions 0, 1, .., Tau - 1
DecodeChallenge ==
    /\ pc = "idle"
    /\ ~panicked
    /\ rep < params.Tau.Tau
    /\ \E debug_assertions \in BOOLEAN :
          IF \/ debug_assertions /\ ~decode_assert(params.Tau, rep)
             \/ ~decode_in_bounds(params.Tau, chal, rep)
          THEN /\ panicked' = TRUE
               /\ UNCHANGED <<rep, res, bits>>
          ELSE /\ res' = decode_challenge(params.Tau, chal, rep)
               /\ bits' = bits \o res'
               /\ rep' = rep + 1
               /\ panicked' = FALSE
    /\ UNCHANGED <<params, peer, chal, call>>
    /\ UNCHANGED keygenVars

ConvertIndex ==
    /\ pc = "idle"
    /\ ~panicked
    /\ \E i \in 0..(params.Tau.Tau - 1) :
          call' = [op |-> "convert_index", i |-> i,
                   ret |-> <<convert_index(params.Tau, i)>>]
    /\ UNCHANGED <<params, peer, chal, rep, res, bits, panicked>>
    /\ UNCHANGED keygenVars

ConvertIndexAndSize ==
    /\ pc = "idle"
    /\ ~panicked
    /\ \E i \in 0..(params.Tau.Tau - 1) :
          call' = [op |-> "convert_index_and_size", i |-> i,
                   ret |-> convert_index_and_size(params.Tau, i)]
    /\ UNCHANGED <<params, peer, chal, rep, res, bits, panicked>>
    /\ UNCHANGED keygenVars

NextTau == DecodeChallenge \/ ConvertIndex \/ ConvertIndexAndSize

SpecTau == InitTau /\ [][NextTau]_vars

\* implementations of the public trait TauParameters other than the six of
\* this file: the trait accepts any assignment of its associated types
TauOvershoot == [name |-> "TauOvershoot", Tau |-> 11, K0 |-> 12, K1 |-> 12, Tau0 |-> 7, Tau1 |-> 4]

TauShort == [name |-> "TauShort", Tau |-> 11, K0 |-> 12, K1 |-> 10, Tau0 |-> 7, Tau1 |-> 4]

TauMiscount == [name |-> "TauMiscount", Tau |-> 12, K0 |-> 12, K1 |-> 11, Tau0 |-> 7, Tau1 |-> 4]

\* any binding of a circuit to a schedule type-checks as FAESTParameters
UncheckedConfigurations ==
    FAESTConfigurations
        \cup {[FAEST128sParameters EXCEPT !.name = T.name, !.Tau = T] :
                 T \in {TauOvershoot, TauShort, TauMiscount}}

\* the operations of the schedule are called as soon as a configuration
\* exists: nothing runs between the binding and the first call
InitUnchecked ==
    /\ params \in UncheckedConfigurations
    /\ chal \in {ChalBuffer(p, params.OWF.Lambda \div 8) : p \in 0..(NumChal - 1)}
    /\ TauIdle
    /\ stream = [k \in 1..MaxDraws |-> 0]
    /\ extFail = {}
    /\ KeygenIdle("idle")
    /\ peer = KeygenCall("idle", <<>>)

SpecUnchecked == InitUnchecked /\ [][NextTau]_vars

----------------------------------------------------------------------------
(* OWFParameters::keygen_with_rng, one action per statement of the loop *)

\* let mut sk: GenericArray<u8, Self::SK> = GenericArray::default();
NewBuffer ==
    /\ pc = "loop"
    /\ attempts < MaxDraws
    /\ attempts' = attempts + 1
    /\ sk' = default_array(params.OWF.SK)
    /\ pc' = "fill"
    /\ UNCHANGED <<params, peer, stream, extFail, draws, owf_output, ret>>
    /\ UNCHANGED tauVars

\* fill_bytes on a random source that restarts on every iteration
FillBytes_restart ==
    /\ pc = "fill"
    /\ sk' = fill_bytes(stream[1], Len(sk))
    /\ draws' = draws + 1
    /\ pc' = "extend"
    /\ UNCHANGED <<params, peer, stream, extFail, attempts, owf_output, ret>>
    /\ UNCHANGED tauVars

\* rng.fill_bytes(&mut sk);
FillBytes ==
    /\ pc = "fill"
    /\ sk' = fill_bytes(stream[draws + 1], Len(sk))
    /\ draws' = draws + 1
    /\ pc' = "extend"
    /\ UNCHANGED <<params, peer, stream, extFail, attempts, owf_output, ret>>
    /\ UNCHANGED tauVars

\* the extension check with an iteration cap that aborts the call
ExtendWitness_capped ==
    /\ pc = "extend"
    /\ LET owf_input == owf_input_of(params.OWF, sk)
           owf_key == owf_key_of(params.OWF, sk)
       IN  IF ~extendwitness(params.OWF, owf_key, owf_input).is_some
           THEN pc' = (IF attempts >= 2 THEN "aborted" ELSE "loop")
           ELSE pc' = "evaluate"
    /\ UNCHANGED <<params, peer, stream, extFail, draws, attempts, sk, owf_output, ret>>
    /\ UNCHANGED tauVars

\* the extension check with is_some in place of is_none
ExtendWitness_inverted ==
    /\ pc = "extend"
    /\ LET owf_input == owf_input_of(params.OWF, sk)
           owf_key == owf_key_of(params.OWF, sk)
       IN  IF extendwitness(params.OWF, owf_key, owf_input).is_some
           THEN pc' = "loop"
           ELSE pc' = "evaluate"
    /\ UNCHANGED <<params, peer, stream, extFail, draws, attempts, sk, owf_output, ret>>
    /\ UNCHANGED tauVars

\* the extension check without its `continue`
ExtendWitness_fallthrough ==
    /\ pc = "extend"
    /\ pc' = "evaluate"
    /\ UNCHANGED <<params, peer, stream, extFail, draws, attempts, sk, owf_output, ret>>
    /\ UNCHANGED tauVars

\* if Self::extendwitness(owf_key, owf_input).is_none() { continue; }
ExtendWitness ==
    /\ pc = "extend"
    /\ LET owf_input == owf_input_of(params.OWF, sk)
           owf_key == owf_key_of(params.OWF, sk)
       IN  IF ~extendwitness(params.OWF, owf_key, owf_input).is_some
           THEN pc' = "loop"
           ELSE pc' = "evaluate"
    /\ UNCHANGED <<params, peer, stream, extFail, draws, attempts, sk, owf_output, ret>>
    /\ UNCHANGED tauVars

\* evaluate_owf called with key and input exchanged
EvaluateOwf_swapped ==
    /\ pc = "evaluate"
    /\ owf_output' = evaluate_owf(params.OWF, owf_input_of(params.OWF, sk),
                                  owf_key_of(params.OWF, sk),
                                  default_array(params.OWF.InputSize))
    /\ pc' = "return"
    /\ UNCHANGED <<params, peer, stream, extFail, draws, attempts, sk, ret>>
    /\ UNCHANGED tauVars

\* let mut owf_output = GenericArray::default();
\* Self::evaluate_owf(owf_key, owf_input, &mut owf_output);
EvaluateOwf ==
    /\ pc = "evaluate"
    /\ owf_output' = evaluate_owf(params.OWF, owf_key_of(params.OWF, sk),
                                  owf_input_of(params.OWF, sk),
                                  default_array(params.OWF.InputSize))
    /\ pc' = "return"
    /\ UNCHANGED <<params, peer, stream, extFail, draws, attempts, sk, ret>>
    /\ UNCHANGED tauVars

\* return SecretKey { owf_key, pk: PublicKey { owf_input, owf_output } };
Return ==
    /\ pc = "return"
    /\ ret' = [owf_key |-> owf_key_of(params.OWF, sk),
               pk |-> [owf_input |-> owf_input_of(params.OWF, sk),
                       owf_output |-> owf_output]]
    /\ pc' = "done"
    /\ UNCHANGED <<params, peer, stream, extFail, draws, attempts, sk, owf_output>>
    /\ UNCHANGED tauVars

NextKeygen == NewBuffer \/ FillBytes \/ ExtendWitness \/ EvaluateOwf \/ Return

SpecKeygen == InitKeygen /\ [][NextKeygen]_vars

\* one statement of keygen_with_rng executed by a call whose own state is c;
\* the statements are those of NewBuffer, FillBytes, ExtendWitness,
\* EvaluateOwf and Return
keygen_step(O, c) ==
    IF c.pc = "loop"
    THEN [c EXCEPT !.attempts = c.attempts + 1,
                   !.sk = default_array(O.SK),
                   !.pc = "fill"]
    ELSE IF c.pc = "fill"
    THEN [c EXCEPT !.sk = fill_bytes(c.stream[c.draws + 1], Len(c.sk)),
                   !.draws = c.draws + 1,
                   !.pc = "extend"]
    ELSE IF c.pc = "extend"
    THEN IF ~extendwitness(O, owf_key_of(O, c.sk), owf_input_of(O, c.sk)).is_some
         THEN [c EXCEPT !.pc = "loop"]
         ELSE [c EXCEPT !.pc = "evaluate"]
    ELSE IF c.pc = "evaluate"
    THEN [c EXCEPT !.owf_output = evaluate_owf(O, owf_key_of(O, c.sk), owf_input_of(O, c.sk),
                                              default_array(O.InputSize)),
                   !.pc = "return"]
    ELSE [c EXCEPT !.ret = [owf_key |-> owf_key_of(O, c.sk),
                            pk |-> [owf_input |-> owf_input_of(O, c.sk),
                                    owf_output |-> c.owf_output]],
                   !.pc = "done"]

\* a step of the second call in which its random source is the first call's
PeerStep_shared_rng ==
    /\ peer.pc \notin {"idle", "done"}
    /\ peer.pc = "loop" => peer.attempts < MaxDraws
    /\ peer' = [keygen_step(params.OWF, [peer EXCEPT !.stream = stream])
                   EXCEPT !.stream = peer.stream]
    /\ UNCHANGED <<params, stream, extFail, pc, draws, attempts, sk, owf_output, ret>>
    /\ UNCHANGED tauVars

\* the second call executes its next statement on its own rng and buffers
PeerStep ==
    /\ peer.pc \notin {"idle", "done"}
    /\ peer.pc = "loop" => peer.attempts < MaxDraws
    /\ peer' = keygen_step(params.OWF, peer)
    /\ UNCHANGED <<params, stream, extFail, pc, draws, attempts, sk, owf_output, ret>>
    /\ UNCHANGED tauVars

\* s back to front
Reverse(s) == [n \in 1..Len(s) |-> s[Len(s) + 1 - n]]

\* two calls of keygen_with_rng on two threads, each owning its random
\* source; the second source yields the same stream or another one
InitConcurrent ==
    /\ params \in {FAEST128sParameters, FAESTEM192sParameters}
    /\ chal = ChalBuffer(0, params.OWF.Lambda \div 8)
    /\ TauIdle
    /\ stream \in [1..MaxDraws -> SampleIds]
    /\ extFail \in SUBSET SampleIds
    /\ KeygenIdle("loop")
    /\ \E str \in {stream, Reverse(stream)} : peer = KeygenCall("loop", str)

NextConcurrent == NextKeygen \/ PeerStep

SpecConcurrent == InitConcurrent /\ [][NextConcurrent]_vars

\* the call keeps running: every enabled statement is eventually executed
FairKeygen == SpecKeygen /\ WF_vars(NextKeygen)

----------------------------------------------------------------------------
(* Properties of the configuration tables and of challenge decoding *)

\* bit j of a bit-packed buffer, little-endian within each byte
ChalBit(c, j) == (c[j \div 8] \div (2 ^ (j % 8))) % 2

\* the identity asserted by test::faest_parameters::tau_config
TauCovers(P) == P.Tau.K0 * P.Tau.Tau0 + P.Tau.K1 * P.Tau.Tau1 = P.OWF.Lambda

\* C1: in each of the twelve configurations the repetition schedule covers
\* the security parameter exactly: K0*Tau0 + K1*Tau1 = LAMBDA of its OWF.
C1_TauConfig ==
    /\ TauCovers(params)
    /\ \A P \in FAESTConfigurations : TauCovers(P)

\* all repetitions of a schedule with two different widths were decoded
C1_Witness ==
    /\ params.name = "FAESTEM256s"
    /\ rep = params.Tau.Tau0 + params.Tau.Tau1
    /\ Len(bits) = params.OWF.Lambda

\* what the slice of repetition i has to be: width and first bit offset
SliceWidth(T, i) == IF i < T.Tau0 THEN T.K0 ELSE T.K1

SliceLo(T, i) == IF i < T.Tau0 THEN i * T.K0 ELSE T.Tau0 * T.K0 + (i - T.Tau0) * T.K1

IsSliceOf(T, c, i, v) ==
    /\ Len(v) = SliceWidth(T, i)
    /\ \A n \in 0..(Len(v) - 1) :
          /\ v[n + 1] = ChalBit(c, SliceLo(T, i) + n)
          /\ v[n + 1] \in {0, 1}

\* C2: decode_challenge(chal, i) has K0 elements for i < Tau0 and K1
\* otherwise, its n-th element is bit lo+n of chal (little-endian in each
\* byte) with lo the start of repetition i, and every element is 0 or 1.
C2_DecodeChallenge ==
    /\ \A i \in 0..(params.Tau.Tau0 + params.Tau.Tau1 - 1) :
          IsSliceOf(params.Tau, chal, i, decode_challenge(params.Tau, chal, i))
    /\ rep > 0 => IsSliceOf(params.Tau, chal, rep - 1, res)

\* a repetition of the second region (width K1 # K0) was decoded and the
\* slice holds both bit values
C2_Witness ==
    /\ params.Tau.K0 # params.Tau.K1
    /\ rep > params.Tau.Tau0 + 1
    /\ Len(res) = params.Tau.K1
    /\ \E n, m \in 1..Len(res) : res[n] = 0 /\ res[m] = 1

\* C3: the slices of the repetitions 0..Tau-1, concatenated, are exactly
\* the LAMBDA bits of chal in order: contiguous, non-overlapping, from bit
\* 0 to bit LAMBDA-1.
C3_Concatenation ==
    /\ Len(bits) <= params.OWF.Lambda
    /\ \A j \in 1..Len(bits) : bits[j] = ChalBit(chal, j - 1)
    /\ Len(bits) = (IF rep = 0 THEN 0
                    ELSE SliceLo(params.Tau, rep - 1) + SliceWidth(params.Tau, rep - 1))
    /\ rep = params.Tau.Tau =>
          bits = [j \in 1..params.OWF.Lambda |-> ChalBit(chal, j - 1)]

\* the whole challenge of a 192-bit configuration was reassembled
C3_Witness ==
    /\ params.name = "FAEST192s"
    /\ rep = params.Tau.Tau
    /\ Len(bits) = 192
    /\ \E n, m \in 1..Len(bits) : bits[n] = 0 /\ bits[m] = 1

\* C4: convert_index_and_size(i) = (convert_index(i), length of
\* decode_challenge(chal, i)) for every i, and the first bit decoded for
\* repetition i is the challenge bit at offset convert_index(i).
C4_Agree ==
    /\ \A i \in 0..(params.Tau.Tau - 1) :
          /\ convert_index_and_size(params.Tau, i)
                = <<convert_index(params.Tau, i), Len(decode_challenge(params.Tau, chal, i))>>
          /\ decode_challenge(params.Tau, chal, i)[1]
                = ChalBit(chal, convert_index(params.Tau, i))
    /\ call.op = "convert_index_and_size" =>
          call.ret = <<convert_index(params.Tau, call.i),
                       Len(decode_challenge(params.Tau, chal, call.i))>>
    /\ call.op = "convert_index" =>
          call.ret[1] = convert_index_and_size(params.Tau, call.i)[1]
    /\ rep > 0 =>
          /\ res[1] = ChalBit(chal, convert_index(params.Tau, rep - 1))
          /\ Len(res) = convert_index_and_size(params.Tau, rep - 1)[2]

\* all three operations were applied to the same repetition of the second
\* region of a schedule with K0 # K1
C4_Witness ==
    /\ params.Tau.K0 # params.Tau.K1
    /\ call.op = "convert_index_and_size"
    /\ call.i = rep - 1
    /\ call.i > params.Tau.Tau0
    /\ call.ret[2] = Len(res)

----------------------------------------------------------------------------
(* Properties of key generation *)

\* the buffer the random source produced on its k-th call
Sample(k) == fill_bytes(stream[k], params.OWF.InputSize + params.OWF.LambdaBytes)

SampleInput(k) == [n \in 1..params.OWF.InputSize |-> Sample(k)[n]]

SampleKey(k) == [n \in 1..params.OWF.LambdaBytes |-> Sample(k)[params.OWF.InputSize + n]]

\* witness extension succeeds on the k-th sample
SampleExtends(k) == extendwitness(params.OWF, SampleKey(k), SampleInput(k)).is_some

\* C5: on every SecretKey returned by keygen_with_rng witness extension
\* succeeds on replay, so witness(sk) does not unwrap None.
C5_ReturnedKeyExtends ==
    pc = "done" =>
        /\ extendwitness(params.OWF, ret.owf_key, ret.pk.owf_input).is_some
        /\ witness(params.OWF, ret) # "panic"

\* a key was returned after at least one sample had been rejected
C5_Witness ==
    /\ pc = "done"
    /\ draws > 1
    /\ ret # NoKey
    /\ witness(params.OWF, ret) = "witness"

\* C6: a failed witness extension only sends the loop back to its head
\* with nothing returned, however many attempts were made; the key that is
\* returned is built from the first sample on which extension succeeds and
\* from none of the rejected ones.
C6_ResampleOnly ==
    [][ /\ (pc = "extend" /\ ~SampleExtends(draws)) =>
              (pc' = "loop" /\ ret' = NoKey /\ attempts' = attempts)
        /\ pc' = "done" =>
              /\ \A k \in 1..(draws' - 1) : ~SampleExtends(k)
              /\ SampleExtends(draws')
              /\ ret'.owf_key = SampleKey(draws')
              /\ ret'.pk.owf_input = SampleInput(draws')
              /\ \A k \in 1..(draws' - 1) :
                    ret'.owf_key # SampleKey(k) /\ ret'.pk.owf_input # SampleInput(k)
      ]_vars

\* every sample but the last of the stream was rejected and a key returned
C6_Witness ==
    /\ pc = "done"
    /\ draws = MaxDraws
    /\ attempts = MaxDraws
    /\ \A k \in 1..(MaxDraws - 1) : ~SampleExtends(k)
    /\ ret.owf_key = SampleKey(MaxDraws)

\* the random source yields a sample on which witness extension succeeds
StreamHasGoodSample == \E k \in 1..MaxDraws : SampleExtends(k)

\* C7: if the random source eventually yields a sample on which witness
\* extension succeeds, keygen_with_rng eventually returns a SecretKey.
C7_Terminates == StreamHasGoodSample ~> (pc = "done" /\ ret # NoKey)

\* a run that returned although its first sample was rejected
C7_Witness ==
    /\ pc = "done"
    /\ ret # NoKey
    /\ ~SampleExtends(1)
    /\ StreamHasGoodSample

\* the identities asserted by test::owf_parameters::pk_sk_size
PkSkSize(O) ==
    /\ O.SK = O.InputSize + O.LambdaBytes
    /\ O.PK = O.InputSize + O.InputSize

\* C8: for all six circuit bindings SK = InputSize + LAMBDABYTES and
\* PK = 2 * InputSize; the keys that key generation returns have these
\* lengths.
C8_PkSkSize ==
    /\ PkSkSize(params.OWF)
    /\ \A P \in FAESTConfigurations : PkSkSize(P.OWF)
    /\ pc = "done" =>
          /\ Len(ret.pk.owf_input) + Len(ret.owf_key) = params.OWF.SK
          /\ Len(ret.pk.owf_input) + Len(ret.pk.owf_output) = params.OWF.PK

\* a key was returned for the binding whose input and key lengths differ
C8_Witness ==
    /\ pc = "done"
    /\ params.OWF.name = "OWF192"
    /\ Len(ret.owf_key) = 24
    /\ Len(ret.pk.owf_input) = 32

\* C9: each attempt makes exactly one call to the random source, which
\* fills one whole fresh buffer of SK = InputSize + LAMBDABYTES bytes; the
\* buffer is split with the circuit input first and the cipher key second;
\* the number of draws equals the number of attempts.
C9_OneShot ==
    /\ pc = "fill" =>
          /\ attempts = draws + 1
          /\ sk = [n \in 1..(params.OWF.InputSize + params.OWF.LambdaBytes) |-> 0]
    /\ pc \in {"loop", "extend", "evaluate", "return", "done"} => attempts = draws
    /\ pc \in {"extend", "evaluate", "return", "done"} => sk = Sample(draws)
    /\ pc = "done" =>
          /\ ret.pk.owf_input = [n \in 1..params.OWF.InputSize |-> sk[n]]
          /\ ret.owf_key =
                [n \in 1..params.OWF.LambdaBytes |-> sk[params.OWF.InputSize + n]]

\* three attempts, three draws, and a key split from the third buffer of
\* the binding whose input and key lengths differ
C9_Witness ==
    /\ pc = "done"
    /\ params.OWF.name = "OWF192"
    /\ attempts = 3
    /\ draws = 3
    /\ ret.owf_key # [n \in 1..params.OWF.LambdaBytes |-> sk[n]]

\* C10: the returned public key comes from the accepted sample only:
\* owf_input is its input part, owf_key its key part, and owf_output is
\* evaluate_owf(owf_key, owf_input), computed in the accepting attempt
\* after the extension succeeded.
C10_PublicKey ==
    /\ pc \in {"loop", "fill", "extend", "evaluate"} => owf_output = <<>> /\ ret = NoKey
    /\ pc \in {"return", "done"} =>
          /\ SampleExtends(draws)
          /\ owf_output = evaluate_owf(params.OWF, SampleKey(draws), SampleInput(draws),
                                       [n \in 1..params.OWF.InputSize |-> 0])
    /\ pc = "done" =>
          /\ ret.pk.owf_input = SampleInput(draws)
          /\ ret.owf_key = SampleKey(draws)
          /\ ret.pk.owf_output = evaluate_owf(params.OWF, ret.owf_key, ret.pk.owf_input,
                                              [n \in 1..params.OWF.InputSize |-> 0])

\* an Even-Mansour key returned from the second sample
C10_Witness ==
    /\ pc = "done"
    /\ params.OWF.em
    /\ draws = 2
    /\ ret.pk.owf_output # ret.pk.owf_input
    /\ Len(ret.pk.owf_output) = params.OWF.InputSize

----------------------------------------------------------------------------
(* Properties of one-way-function evaluation and of the derived sizes *)

\* bytewise a XOR b
XorBytes(a, b) == [n \in 1..Len(a) |-> Xor8(a[n], b[n], 8)]

\* the relation between key, input and output in an Even-Mansour binding
IsEvenMansour(O, key, input, out) ==
    /\ O.InputSize = O.LambdaBytes
    /\ Len(out) = O.InputSize
    /\ out = XorBytes(encrypt_block_b2b(input, key), key)
    /\ XorBytes(out, key) = encrypt_block_b2b(input, key)

\* the relation in a standard binding: the key keys the cipher, the input
\* is encrypted in blocks of 16 bytes, nothing is added to the ciphertext
IsStandard(O, key, input, out) ==
    /\ Len(out) = Len(input)
    /\ \A b \in 0..((Len(input) \div 16) - 1) :
          [n \in 1..16 |-> out[16 * b + n]]
            = encrypt_block_b2b(key, [n \in 1..16 |-> input[16 * b + n]])

\* C11: in the Even-Mansour bindings evaluate_owf(key, input) is
\* E(cipher key := input, block := key) XOR key over all InputSize bytes
\* (InputSize = LAMBDABYTES), so output XOR key is the raw ciphertext; in
\* the standard bindings it is E(cipher key := key, block := input).
C11_EvenMansour ==
    /\ \A P \in FAESTConfigurations : P.OWF.em => P.OWF.InputSize = P.OWF.LambdaBytes
    /\ pc \in {"return", "done"} =>
          IF params.OWF.em
          THEN IsEvenMansour(params.OWF, SampleKey(draws), SampleInput(draws), owf_output)
          ELSE IsStandard(params.OWF, SampleKey(draws), SampleInput(draws), owf_output)
    /\ pc = "done" =>
          IF params.OWF.em
          THEN XorBytes(ret.pk.owf_output, ret.owf_key)
                 = encrypt_block_b2b(ret.pk.owf_input, ret.owf_key)
          ELSE IsStandard(params.OWF, ret.owf_key, ret.pk.owf_input, ret.pk.owf_output)

\* an Even-Mansour public output was computed and differs from what the
\* standard roles would give
C11_Witness ==
    /\ pc = "done"
    /\ params.OWF.name = "OWF192EM"
    /\ Len(ret.pk.owf_output) = 24
    /\ ret.pk.owf_output # encrypt_block_b2b(ret.owf_key, ret.pk.owf_input)
    /\ XorBytes(ret.pk.owf_output, ret.owf_key) # ret.pk.owf_output

\* input with the 16-byte block b replaced by zeros
ZeroBlock(input, b) ==
    [n \in 1..Len(input) |-> IF (n - 1) \div 16 = b THEN 0 ELSE input[n]]

\* C12: in the standard bindings evaluate_owf is a block encryption with
\* R = 10/12/14 rounds at LAMBDA = 128/192/256; OWF128 encrypts one
\* 16-byte block, OWF192 and OWF256 encrypt the 32-byte input as two
\* independent 16-byte blocks under the same key, each output half
\* depending only on the key and the matching input half.
C12_StandardBlocks ==
    /\ \A P \in FAESTConfigurations :
          /\ P.OWF.R = (IF P.OWF.Lambda = 128 THEN 10
                         ELSE IF P.OWF.Lambda = 192 THEN 12 ELSE 14)
          /\ ~P.OWF.em => P.OWF.InputSize = (IF P.OWF.Lambda = 128 THEN 16 ELSE 32)
    /\ (pc \in {"return", "done"} /\ ~params.OWF.em) =>
          LET key == SampleKey(draws)
              input == SampleInput(draws)
          IN  /\ params.OWF.R = (Len(key) \div 4) + 6
              /\ Len(owf_output) = params.OWF.InputSize
              /\ [n \in 1..16 |-> owf_output[n]]
                    = encrypt_block_b2b(key, [n \in 1..16 |-> input[n]])
              /\ params.OWF.InputSize = 32 =>
                    /\ [n \in 1..16 |-> owf_output[16 + n]]
                          = encrypt_block_b2b(key, [n \in 1..16 |-> input[16 + n]])
                    /\ \A b \in {0, 1} :
                          LET other == evaluate_owf(params.OWF, key, ZeroBlock(input, 1 - b),
                                                    [n \in 1..32 |-> 0])
                          IN  [n \in 1..16 |-> other[16 * b + n]]
                                = [n \in 1..16 |-> owf_output[16 * b + n]]

\* a two-block public output whose halves differ was computed
C12_Witness ==
    /\ pc = "done"
    /\ params.OWF.name = "OWF192"
    /\ Len(ret.pk.owf_output) = 32
    /\ [n \in 1..16 |-> ret.pk.owf_output[n]] # [n \in 1..16 |-> ret.pk.owf_output[16 + n]]

\* the identities asserted by test::owf_parameters::lambda and
\* test::owf_parameters::owf_parameters
ByteAddressable(O) ==
    /\ O.Lambda \in {128, 192, 256}
    /\ O.LambdaBytes * 8 = O.Lambda
    /\ O.L % 8 = 0
    /\ O.LBYTES * 8 = O.L
    /\ O.LKE % 8 = 0
    /\ O.LKEBytes * 8 = O.LKE
    /\ O.LENC % 8 = 0

\* C13: in all six circuit bindings LAMBDA is 128, 192 or 256 and
\* LAMBDABYTES*8 = LAMBDA; L, LKE and LENC are multiples of 8, with
\* LBYTES*8 = L and LKEBytes*8 = LKE; the returned key has LAMBDA bits.
C13_ByteAddressable ==
    /\ ByteAddressable(params.OWF)
    /\ \A P \in FAESTConfigurations : ByteAddressable(P.OWF)
    /\ pc = "done" => 8 * Len(ret.owf_key) = params.OWF.Lambda

\* a key of 256 bits was returned for the binding with L = 4096 - 512
C13_Witness ==
    /\ pc = "done"
    /\ params.OWF.name = "OWF256EM"
    /\ params.OWF.L = 3584
    /\ 8 * Len(ret.owf_key) = 256

\* the fixed-size parts of a signature, from the configuration's constants
SignatureParts(P) ==
    (P.Tau.Tau - 1) * P.OWF.LHATBYTES
    + (P.OWF.LambdaBytes + 2)
    + P.OWF.LBYTES
    + P.OWF.LambdaBytes
    + P.OWF.Lambda * P.OWF.LambdaBytes
    + P.Tau.Tau * 2 * P.OWF.LambdaBytes
    + P.OWF.LambdaBytes
    + 16

\* the published signature lengths
PublishedSize(n) ==
    CASE n = "FAEST128s" -> 5006 [] n = "FAEST128f" -> 6336
      [] n = "FAEST192s" -> 12744 [] n = "FAEST192f" -> 16792
      [] n = "FAEST256s" -> 22100 [] n = "FAEST256f" -> 28400
      [] n = "FAESTEM128s" -> 4566 [] n = "FAESTEM128f" -> 5696
      [] n = "FAESTEM192s" -> 10824 [] n = "FAESTEM192f" -> 13912
      [] n = "FAESTEM256s" -> 20956 [] n = "FAESTEM256f" -> 26736

SignatureSizeOk(P) ==
    /\ P.OWF.LHATBYTES = P.OWF.LBYTES + 2 * P.OWF.LambdaBytes + 2
    /\ P.SignatureSize = SignatureParts(P)
    /\ P.SignatureSize = PublishedSize(P.name)

\* C17: in each of the twelve configurations SignatureSize is the sum of
\* the signature's fixed-size parts computed from the configuration's own
\* constants, and equals the published length.
C17_SignatureSize ==
    /\ SignatureSizeOk(params)
    /\ \A P \in FAESTConfigurations : SignatureSizeOk(P)

\* key generation ran to its end under the configuration with the longest
\* signature
C17_Witness ==
    /\ params.name = "FAEST256f"
    /\ params.SignatureSize = 28400
    /\ pc = "done"

----------------------------------------------------------------------------
(* Properties of the validity of configurations and of buffer accesses *)

\* the identities a configuration has to satisfy
ConfigValid(P) ==
    /\ TauCovers(P)
    /\ P.Tau.Tau = P.Tau.Tau0 + P.Tau.Tau1

\* C14: a configuration that violates one of the identities is rejected
\* when it is constructed: no operation of the schedule is ever called (or
\* panics) under such a configuration.
C14_Rejected ==
    (rep > 0 \/ call.op # "none" \/ panicked) => ConfigValid(params)

\* C18: on valid arguments decode_challenge never reads outside the
\* challenge buffer: for every i in [0, Tau0+Tau1) the bit range satisfies
\* 0 <= lo <= hi <= LAMBDA-1, every j/8 indexes inside the LAMBDA/8 bytes,
\* the debug assertion holds, and no call panics.
C18_InBounds ==
    /\ ~panicked
    /\ DOMAIN chal = 0..((params.OWF.Lambda \div 8) - 1)
    /\ \A i \in 0..(params.Tau.Tau0 + params.Tau.Tau1 - 1) :
          LET lo == decode_bounds(params.Tau, i)[1]
              hi == decode_bounds(params.Tau, i)[2]
          IN  /\ 0 <= lo
              /\ lo <= hi
              /\ hi <= params.OWF.Lambda - 1
              /\ \A j \in lo..hi : j \div 8 < params.OWF.Lambda \div 8
              /\ decode_assert(params.Tau, i)
              /\ decode_in_bounds(params.Tau, chal, i)

\* the last repetition, whose slice ends at bit LAMBDA-1, was decoded
C18_Witness ==
    /\ ~panicked
    /\ rep = params.Tau.Tau0 + params.Tau.Tau1
    /\ params.Tau.name = "Tau128Small"
    /\ decode_bounds(params.Tau, rep - 1)[2] = 127
    /\ Len(res) = 11

----------------------------------------------------------------------------
(* Properties of the rejection loop under a collaborator that always fails *)

\* C16 as stated: the rejection loop has an iteration cap, so with a
\* witness-extension collaborator that fails on every sample the call has
\* aborted once the attempts the stream covers are used up, and is not
\* back at the head of the loop.
C16_Capped ==
    (extFail = SampleIds /\ attempts = MaxDraws /\ pc \notin {"fill", "extend"})
        => pc = "aborted"

\* C16 amended: the rejection loop has no iteration cap: with a collaborator
\* that fails on every sample, every failed attempt goes back to the head of
\* the loop to resample, whatever the number of attempts, and the call
\* neither returns nor aborts.
C16_NoCap ==
    extFail = SampleIds =>
        /\ pc \in {"loop", "fill", "extend"}
        /\ ret = NoKey
        /\ owf_output = <<>>
        /\ pc = "loop" => attempts = draws

\* every sample was rejected and the call is at the head of the loop again
C16_Witness ==
    /\ extFail = SampleIds
    /\ pc = "loop"
    /\ attempts = MaxDraws
    /\ draws = MaxDraws
    /\ \A k \in 1..MaxDraws : ~SampleExtends(k)

----------------------------------------------------------------------------
(* Properties of concurrent key generation *)

\* witness extension succeeds on what the random source yields for s
Accepts(O, s) ==
    extendwitness(O, [n \in 1..O.LambdaBytes |-> fill_bytes(s, O.SK)[O.InputSize + n]],
                     [n \in 1..O.InputSize |-> fill_bytes(s, O.SK)[n]]).is_some

\* the SecretKey a call returns when it runs alone on the stream str: the
\* one built from the first sample of str that witness extension accepts
AloneKey(O, str) ==
    LET k == CHOOSE k \in 1..Len(str) :
                 Accepts(O, str[k]) /\ \A j \in 1..(k - 1) : ~Accepts(O, str[j])
        buf == fill_bytes(str[k], O.SK)
        input == [n \in 1..O.InputSize |-> buf[n]]
        key == [n \in 1..O.LambdaBytes |-> buf[O.InputSize + n]]
    IN  [owf_key |-> key,
         pk |-> [owf_input |-> input,
                 owf_output |-> evaluate_owf(O, key, input, [n \in 1..O.InputSize |-> 0])]]

\* C15: two keygen_with_rng calls, each with its own random source, whose
\* statements interleave in any order each return exactly the SecretKey
\* they return when run alone on the same random stream.
C15_Isolated ==
    /\ pc = "done" => ret = AloneKey(params.OWF, stream)
    /\ peer.pc = "done" => peer.ret = AloneKey(params.OWF, peer.stream)
    /\ peer.draws <= peer.attempts /\ peer.attempts <= peer.draws + 1
    /\ draws <= attempts /\ attempts <= draws + 1

\* both calls returned, on different streams and after different numbers
\* of draws
C15_Witness ==
    /\ pc = "done"
    /\ peer.pc = "done"
    /\ ret # NoKey
    /\ peer.ret # NoKey
    /\ draws # peer.draws
    /\ peer.stream # stream

====
